---- MODULE Spec2Model ----
(***************************************************************************)
(* The delay line of the "Slap" stereo delay plugin (src/src/lib.rs).      *)
(*                                                                         *)
(* Numbers.  The plugin computes in f32; the model computes in exact       *)
(* rationals.  A sample rate, a delay time (ms) and a dry/wet level are    *)
(* pairs <<numerator, denominator>> with a positive denominator; an audio  *)
(* sample on input is an integer and on output a pair.  `as usize` is the  *)
(* saturating truncation of Rust.  Buffers are sequences, so the cell the  *)
(* source calls delay_buffer[c][i] is delay_buffer[c + 1][i + 1] here;     *)
(* write_pos and read_pos keep the source's 0-based values.                *)
(***************************************************************************)
EXTENDS Integers, Sequences, FiniteSets, TLC

\* ------------------------------------------------------------------ bounds
\* Frames processed between two initialize calls.
MaxFrames == 4
\* Frames in one process call.
MaxBlock == 2

\* ------------------------------------------------------- program constants
\* AUDIO_IO_LAYOUTS: stereo in, stereo out; vec![...; 2].
NumChannels == 2
\* Width of usize, the type of write_pos and of delay_time_samples.
UsizeBits == 64

\* ----------------------------------------------------------------- inputs
\* buffer_config.sample_rate, in Hz.
SampleRates == { <<0, 1>>, <<1, 2>>, <<2, 1>>, <<3, 1>> }
\* A stream: <<buffer_config.sample_rate, transport().sample_rate>>.  The
\* host reports the same rate in both places, or a higher one in the
\* transport than the one the buffers were sized for.
Streams == { <<sr, sr>> : sr \in SampleRates } \cup { << <<2, 1>>, <<3, 1>> >> }
\* delay_time in ms; the parameter's declared range is [1, 1000].
DelayTimes == { <<1, 1>>, <<500, 1>>, <<1000, 1>>, <<2000, 1>> }
\* dry_wet; the parameter's declared range is [0, 1].
Mixes == { <<0, 1>>, <<1, 10>>, <<1, 2>>, <<1, 1>> }
\* One frame of input, <<sample of channel 0, sample of channel 1>>:
\* silence, or a unit impulse on channel 0 beside a different sample on
\* channel 1.
Frames == { <<0, 0>>, <<1, 2>> }

RECURSIVE SeqsUpTo(_, _)
SeqsUpTo(S, n) ==
    IF n = 0 THEN { <<>> }
    ELSE LET shorter == SeqsUpTo(S, n - 1)
         IN  shorter \cup { Append(s, x) : s \in { t \in shorter : Len(t) = n - 1 }, x \in S }

Blocks == SeqsUpTo(Frames, MaxBlock)

\* A parameter over the frames of one block: <<value at the first frame,
\* value at the later frames>>.
DelayCurves == { <<d, d>> : d \in DelayTimes } \cup { <<<<1, 1>>, <<500, 1>>>> }
MixCurves == { <<w, w>> : w \in Mixes } \cup { <<<<0, 1>>, <<1, 1>>>> }

ParamAt(curve, i) == IF i = 0 THEN curve[1] ELSE curve[2]

\* lib.rs:34 and 43: the parameters' default values, 120 ms and 0.1.
DefaultDelayTime == << <<120, 1>>, <<120, 1>> >>
DefaultDryWet == << <<1, 10>>, <<1, 10>> >>

\* ------------------------------------------------------------------ state
VARIABLES
    delay_buffer,     \* SlapDelay.delay_buffer: one sequence of samples per channel
    write_pos,        \* SlapDelay.write_pos
    delay_time,       \* params.delay_time over the frames of the next block
    dry_wet,          \* params.dry_wet over the frames of the next block
    sample_rate,      \* buffer_config.sample_rate of the last initialize
    transport_rate,   \* context.transport().sample_rate of the stream
    overflow_checks,  \* the build: TRUE when integer overflow panics (debug)
    panicked,         \* process has panicked; the plugin is gone
    fed,              \* the input frames processed since the last initialize
    call              \* the last operation, with what went in and came out, and
                      \* for a process call the cursor and the buffers it found

vars == << delay_buffer, write_pos, delay_time, dry_wet, sample_rate,
           transport_rate, overflow_checks, panicked, fed, call >>

\* --------------------------------------------------------------- helpers
\* Rust's `x as usize` for the float num/den (den > 0): truncation toward
\* zero, negative values and NaN saturate to 0.
AsUsize(num, den) == IF num <= 0 THEN 0 ELSE num \div den

Zeros(n) == [i \in 1..n |-> 0]

\* A conversion that rounds up where the code truncates.
MaxDelaySamples_Ceil(sr) == AsUsize(sr[1] * 1001 + sr[2] * 1000 - 1, sr[2] * 1000)

\* A buffer sized for 1000 ms, without the margin of 1 ms.
MaxDelaySamples_NoMargin(sr) == AsUsize(sr[1], sr[2])

\* lib.rs:82  (buffer_config.sample_rate * 1.001) as usize
MaxDelaySamples(sr) == AsUsize(sr[1] * 1001, sr[2] * 1000)

\* A conversion that rounds to the nearest where the code truncates.
DelayTimeSamples_Rounded(d, sr) == AsUsize(2 * d[1] * sr[1] + d[2] * 1000 * sr[2], 2 * d[2] * 1000 * sr[2])

\* lib.rs:94-96  (delay_time * 0.001 * sample_rate) as usize
DelayTimeSamples(d, sr) == AsUsize(d[1] * sr[1], d[2] * 1000 * sr[2])

RECURSIVE Pow2Mod(_, _)
Pow2Mod(k, m) == IF k = 0 THEN 1 % m ELSE (2 * Pow2Mod(k - 1, m)) % m

\* A read position one sample further back than the delay asks for.
ReadPos_OffByOne(wp, len, d) ==
    IF wp + len >= d + 1 THEN (wp + len - d - 1) % len
    ELSE (Pow2Mod(UsizeBits, len) + ((wp + len - d - 1) % len)) % len

\* lib.rs:106-108  (write_pos + len - delay_time_samples) % len in usize
\* arithmetic without overflow checks: a negative difference wraps by
\* 2^UsizeBits before the remainder is taken.
ReadPos(wp, len, d) ==
    IF wp + len >= d THEN (wp + len - d) % len
    ELSE (Pow2Mod(UsizeBits, len) + ((wp + len - d) % len)) % len

\* A crossfade with the two weights exchanged.
Mix_Swapped(sample, delayed, w) == << sample * w[1] + delayed * (w[2] - w[1]), w[2] >>

\* An equal-power style crossfade: the weights squared.
Mix_Squared(sample, delayed, w) ==
    << sample * (w[2] - w[1]) * (w[2] - w[1]) + delayed * w[1] * w[1], w[2] * w[2] >>

\* lib.rs:114  sample * (1 - dry_wet) + delayed_sample * dry_wet
Mix(sample, delayed, w) == << sample * (w[2] - w[1]) + delayed * w[1], w[2] >>

\* One channel of one frame with the read taken before the write.
ChannelStep_ReadsFirst(buf, wp, sample, d, w, checks) ==
    LET len == Len(buf) IN
    IF wp >= len
    THEN [ok |-> FALSE, buf |-> buf, read |-> -1, out |-> <<sample, 1>>]
    ELSE LET written == [buf EXCEPT ![wp + 1] = sample] IN
         IF wp + len < d /\ checks
         THEN [ok |-> FALSE, buf |-> written, read |-> -1, out |-> <<sample, 1>>]
         ELSE LET read_pos == ReadPos(wp, len, d)
                  delayed_sample == buf[read_pos + 1]
              IN  [ok |-> TRUE, buf |-> written, read |-> read_pos,
                   out |-> Mix(sample, delayed_sample, w)]

\* One channel of one frame that stores the mixed output, as an integer,
\* where the code stores the input.
ChannelStep_StoresMix(buf, wp, sample, d, w, checks) ==
    LET len == Len(buf) IN
    IF wp >= len
    THEN [ok |-> FALSE, buf |-> buf, read |-> -1, out |-> <<sample, 1>>]
    ELSE LET written == [buf EXCEPT ![wp + 1] = sample] IN
         IF wp + len < d /\ checks
         THEN [ok |-> FALSE, buf |-> written, read |-> -1, out |-> <<sample, 1>>]
         ELSE LET read_pos == ReadPos(wp, len, d)
                  delayed_sample == written[read_pos + 1]
                  mixed == Mix(sample, delayed_sample, w)
              IN  [ok |-> TRUE, buf |-> [buf EXCEPT ![wp + 1] = mixed[1] \div mixed[2]],
                   read |-> read_pos, out |-> mixed]

\* One channel of one frame that writes one cell past the cursor.
ChannelStep_WritesNext(buf, wp, sample, d, w, checks) ==
    LET len == Len(buf) IN
    IF wp >= len
    THEN [ok |-> FALSE, buf |-> buf, read |-> -1, out |-> <<sample, 1>>]
    ELSE LET written == [buf EXCEPT ![((wp + 1) % len) + 1] = sample] IN
         IF wp + len < d /\ checks
         THEN [ok |-> FALSE, buf |-> written, read |-> -1, out |-> <<sample, 1>>]
         ELSE LET read_pos == ReadPos(wp, len, d)
                  delayed_sample == written[read_pos + 1]
              IN  [ok |-> TRUE, buf |-> written, read |-> read_pos,
                   out |-> Mix(sample, delayed_sample, w)]

\* lib.rs:101-115, one channel of one frame.  ok = FALSE is a panic: the
\* write index is out of bounds (empty buffer), or the subtraction of the
\* read position overflows in a build that checks overflow.
ChannelStep(buf, wp, sample, d, w, checks) ==
    LET len == Len(buf) IN
    IF wp >= len
    THEN [ok |-> FALSE, buf |-> buf, read |-> -1, out |-> <<sample, 1>>]
    ELSE LET written == [buf EXCEPT ![wp + 1] = sample] IN
         IF wp + len < d /\ checks
         THEN [ok |-> FALSE, buf |-> written, read |-> -1, out |-> <<sample, 1>>]
         ELSE LET read_pos == ReadPos(wp, len, d)
                  delayed_sample == written[read_pos + 1]
              IN  [ok |-> TRUE, buf |-> written, read |-> read_pos,
                   out |-> Mix(sample, delayed_sample, w)]

\* One frame in which channel 1 works on the buffer of channel 0.
FrameStep_SharedBuffer(st, frame, d, w, checks) ==
    LET c0 == ChannelStep(st.buf[1], st.wp, frame[1], d, w, checks) IN
    IF ~c0.ok
    THEN [st EXCEPT !.ok = FALSE, !.buf = <<c0.buf, st.buf[2]>>]
    ELSE LET c1 == ChannelStep(c0.buf, st.wp, frame[2], d, w, checks) IN
         IF ~c1.ok
         THEN [st EXCEPT !.ok = FALSE, !.buf = <<c0.buf, c1.buf>>]
         ELSE [ok |-> TRUE,
               buf |-> <<c0.buf, c1.buf>>,
               wp |-> (st.wp + 1) % Len(c0.buf),
               out |-> Append(st.out, <<c0.out, c1.out>>),
               reads |-> Append(st.reads, <<c0.read, c1.read>>)]

\* One frame in which the cursor advances once for each channel.
FrameStep_AdvancesPerChannel(st, frame, d, w, checks) ==
    LET c0 == ChannelStep(st.buf[1], st.wp, frame[1], d, w, checks) IN
    IF ~c0.ok
    THEN [st EXCEPT !.ok = FALSE, !.buf = <<c0.buf, st.buf[2]>>]
    ELSE LET c1 == ChannelStep(st.buf[2], st.wp, frame[2], d, w, checks) IN
         IF ~c1.ok
         THEN [st EXCEPT !.ok = FALSE, !.buf = <<c0.buf, c1.buf>>]
         ELSE [ok |-> TRUE,
               buf |-> <<c0.buf, c1.buf>>,
               wp |-> (st.wp + NumChannels) % Len(c0.buf),
               out |-> Append(st.out, <<c0.out, c1.out>>),
               reads |-> Append(st.reads, <<c0.read, c1.read>>)]

\* lib.rs:100-119, one frame: channel 0, then channel 1, then the cursor.
FrameStep(st, frame, d, w, checks) ==
    LET c0 == ChannelStep(st.buf[1], st.wp, frame[1], d, w, checks) IN
    IF ~c0.ok
    THEN [st EXCEPT !.ok = FALSE, !.buf = <<c0.buf, st.buf[2]>>]
    ELSE LET c1 == ChannelStep(st.buf[2], st.wp, frame[2], d, w, checks) IN
         IF ~c1.ok
         THEN [st EXCEPT !.ok = FALSE, !.buf = <<c0.buf, c1.buf>>]
         ELSE [ok |-> TRUE,
               buf |-> <<c0.buf, c1.buf>>,
               wp |-> (st.wp + 1) % Len(c0.buf),
               out |-> Append(st.out, <<c0.out, c1.out>>),
               reads |-> Append(st.reads, <<c0.read, c1.read>>)]

\* lib.rs:100  for mut channel_samples in buffer.iter_samples()
RECURSIVE ProcessFrames(_, _, _, _, _, _)
ProcessFrames(st, block, i, d, w, checks) ==
    IF i > Len(block) \/ ~st.ok THEN st
    ELSE ProcessFrames(FrameStep(st, block[i], d, w, checks), block, i + 1, d, w, checks)

\* lib.rs:88-122  the whole of process: the two parameters are read once,
\* before the loop over the frames.
ProcessBlock(buf, wp, block, dcurve, wcurve, tsr, checks) ==
    LET delay_time_samples == DelayTimeSamples(ParamAt(dcurve, 0), tsr)
        w == ParamAt(wcurve, 0)
        st0 == [ok |-> TRUE, buf |-> buf, wp |-> wp, out |-> <<>>, reads |-> <<>>]
    IN  ProcessFrames(st0, block, 1, delay_time_samples, w, checks)

\* ----------------------------------------------------------------- actions
\* lib.rs:19-27 and 29-49  Default: one empty buffer per channel, cursor 0,
\* the parameters at their defaults.
Init ==
    /\ delay_buffer = [c \in 1..NumChannels |-> <<>>]
    /\ write_pos = 0
    /\ delay_time = DefaultDelayTime
    /\ dry_wet = DefaultDryWet
    /\ sample_rate = <<0, 1>>
    /\ transport_rate = <<0, 1>>
    /\ overflow_checks \in BOOLEAN
    /\ panicked = FALSE
    /\ fed = <<>>
    /\ call = [op |-> "default", in |-> <<>>, out |-> <<>>, reads |-> <<>>, wp |-> 0,
               buf |-> <<>>]

\* An initialize that sizes and clears the buffers and leaves the cursor
\* where it was.
Initialize_KeepsCursor(sr, tsr) ==
    /\ ~panicked
    /\ LET max_delay_samples == MaxDelaySamples(sr) IN
       delay_buffer' = [c \in 1..NumChannels |-> Zeros(max_delay_samples)]
    /\ sample_rate' = sr
    /\ transport_rate' = tsr
    /\ fed' = <<>>
    /\ call' = [op |-> "initialize", in |-> <<>>, out |-> <<>>, reads |-> <<>>, wp |-> write_pos,
                buf |-> <<>>]
    /\ UNCHANGED << write_pos, delay_time, dry_wet, overflow_checks, panicked >>

\* An initialize that sizes and clears the buffer of channel 0 only.
Initialize_FirstChannelOnly(sr, tsr) ==
    /\ ~panicked
    /\ LET max_delay_samples == MaxDelaySamples(sr) IN
       delay_buffer' = [c \in 1..NumChannels |->
                          IF c = 1 THEN Zeros(max_delay_samples) ELSE delay_buffer[c]]
    /\ write_pos' = 0
    /\ sample_rate' = sr
    /\ transport_rate' = tsr
    /\ fed' = <<>>
    /\ call' = [op |-> "initialize", in |-> <<>>, out |-> <<>>, reads |-> <<>>, wp |-> write_pos,
                buf |-> <<>>]
    /\ UNCHANGED << delay_time, dry_wet, overflow_checks, panicked >>

\* lib.rs:75-86  initialize
Initialize(sr, tsr) ==
    /\ ~panicked
    /\ LET max_delay_samples == MaxDelaySamples(sr) IN
       delay_buffer' = [c \in 1..NumChannels |-> Zeros(max_delay_samples)]
    /\ write_pos' = 0
    /\ sample_rate' = sr
    /\ transport_rate' = tsr
    /\ fed' = <<>>
    /\ call' = [op |-> "initialize", in |-> <<>>, out |-> <<>>, reads |-> <<>>, wp |-> write_pos,
                buf |-> <<>>]
    /\ UNCHANGED << delay_time, dry_wet, overflow_checks, panicked >>

\* The host moves the two parameters between two process calls.
SetParams(dcurve, wcurve) ==
    /\ ~panicked
    /\ call.op # "set_params"
    /\ << dcurve, wcurve >> # << delay_time, dry_wet >>
    /\ delay_time' = dcurve
    /\ dry_wet' = wcurve
    /\ call' = [op |-> "set_params", in |-> <<>>, out |-> <<>>, reads |-> <<>>, wp |-> write_pos,
                buf |-> <<>>]
    /\ UNCHANGED << delay_buffer, write_pos, sample_rate, transport_rate,
                    overflow_checks, panicked, fed >>

\* lib.rs:88-122  process, called by the host after initialize.
Process(block) ==
    /\ ~panicked
    /\ call.op # "default"
    /\ Len(fed) + Len(block) <= MaxFrames
    /\ LET r == ProcessBlock(delay_buffer, write_pos, block, delay_time, dry_wet,
                             transport_rate, overflow_checks)
       IN  /\ delay_buffer' = r.buf
           /\ write_pos' = r.wp
           /\ panicked' = ~r.ok
           /\ fed' = fed \o SubSeq(block, 1, Len(r.out))
           /\ call' = [op |-> "process", in |-> block, out |-> r.out,
                       reads |-> r.reads, wp |-> write_pos, buf |-> delay_buffer]
    /\ UNCHANGED << delay_time, dry_wet, sample_rate, transport_rate, overflow_checks >>

Next ==
    \/ \E stream \in Streams : Initialize(stream[1], stream[2])
    \/ \E dcurve \in DelayCurves, wcurve \in MixCurves : SetParams(dcurve, wcurve)
    \/ \E block \in Blocks : Process(block)

Spec == Init /\ [][Next]_vars

\* ------------------------------------------- the conversions at audio rates
\* Sample rates of real streams, in Hz, and a few below 1000 Hz.
ConvRates == { <<500, 1>>, <<999, 1>>, <<1000, 1>>, <<2001, 2>>, <<1999, 1>>, <<8000, 1>>,
               <<22050, 1>>, <<44100, 1>>, <<88201, 2>>, <<48000, 1>>, <<88200, 1>>,
               <<96000, 1>>, <<192000, 1>> }
\* Delay times in ms, inside the parameter's range [1, 1000] and above it.
ConvTimes == { <<1, 1>>, <<11, 10>>, <<17, 10>>, <<120, 1>>, <<500, 1>>, <<9999, 10>>,
               <<1000, 1>>, <<2000, 1>> }
\* Places of the write cursor in a buffer of len samples.
ConvCursors(len) == { p \in { 0, 1, len - 1 } : 0 <= p /\ p < len }

\* The arithmetic of initialize and of one frame of process at one rate,
\* without the buffers: the length initialize gives them (lib.rs:82), the
\* delay process converts (lib.rs:94-96) and the position it reads at
\* from the cursor wp (lib.rs:106-108), where that subtraction does not
\* overflow.
Convert(sr, d, wp) ==
    /\ ~panicked
    /\ wp + MaxDelaySamples(sr) >= DelayTimeSamples(d, sr)
    /\ sample_rate' = sr
    /\ transport_rate' = sr
    /\ delay_time' = <<d, d>>
    /\ call' = [op |-> "convert", in |-> <<>>, out |-> <<>>, reads |-> <<>>, wp |-> wp,
                buf |-> <<>>,
                len |-> MaxDelaySamples(sr),
                delay |-> DelayTimeSamples(d, sr),
                read |-> ReadPos(wp, MaxDelaySamples(sr), DelayTimeSamples(d, sr))]
    /\ UNCHANGED << delay_buffer, write_pos, dry_wet, overflow_checks, panicked, fed >>

NextConv ==
    \E sr \in ConvRates, d \in ConvTimes :
        \E wp \in ConvCursors(MaxDelaySamples(sr)) : Convert(sr, d, wp)

SpecConv == Init /\ [][NextConv]_vars

\* ------------------------------------------------- vocabulary of the claims
Channels == 1..NumChannels

BufferLength == Len(delay_buffer[1])

\* The last operation was a process call.
Processed == call.op = "process"

\* Frames of the last process call that ran to the end of the channel loop.
Done == 1..Len(call.out)

\* write_pos as frame i of the last process call found it.
CursorAt(i) == (call.wp + (i - 1)) % BufferLength

\* 0-based number, counted from the last initialize, of frame i of the
\* last process call.
FrameIndex(i) == Len(fed) - Len(call.out) + (i - 1)

\* The delay, in samples, the last process call converted at its start.
BlockDelay == DelayTimeSamples(ParamAt(delay_time, 0), transport_rate)

\* The output sample r, a fraction, is the number n.
RatIs(r, n) == r[1] = n * r[2]

Min(a, b) == IF a <= b THEN a ELSE b

\* The largest integer not above num / den, for den > 0.
Floor(num, den) == num \div den

\* The integer nearest to num / den, halves upward, for den > 0.
Round(num, den) == (2 * num + den) \div (2 * den)

\* The smallest integer not below num / den, for den > 0.
Ceil(num, den) == -((-num) \div den)

\* ------------------------------------------------------------------ C1
\* C1: in the Configured state (buffer_length >= 1), whatever delay time and
\* conversion rate a process call is given, the delay in samples is clamped
\* into [0, buffer_length - 1] before use: the call does not fail, and every
\* frame reads at (write_cursor + buffer_length - clamped delay) mod
\* buffer_length.
C1_ClampedDelay ==
    (Processed /\ BufferLength >= 1) =>
        /\ ~panicked
        /\ \A i \in Done : \A c \in Channels :
              call.reads[i][c]
                = (CursorAt(i) + BufferLength - Min(BlockDelay, BufferLength - 1)) % BufferLength

\* ------------------------------------------------------------------ C2
\* C2: after any initialize call, also one with a degenerate sample rate,
\* every channel buffer holds at least one sample.
C2_LengthAtLeastOne ==
    (call.op # "default") => \A c \in Channels : Len(delay_buffer[c]) >= 1

\* ------------------------------------------------------------------ C3
\* C3: in every state reachable from an initialize call,
\* 0 <= write_pos < buffer_length.
C3_CursorInRange ==
    (call.op # "default") => (0 <= write_pos /\ write_pos < BufferLength)

\* Where the buffers are not empty the cursor is inside them.
CursorInRangeWhenSized ==
    (call.op # "default" /\ BufferLength >= 1) => (0 <= write_pos /\ write_pos < BufferLength)

\* ------------------------------------------------------------------ C4
\* The last process call ran with a constant delay time inside [1, 1000] ms,
\* converted at the rate the buffers were sized for, and fully wet.
ImpulseTest ==
    /\ Processed
    /\ BufferLength >= 1
    /\ transport_rate = sample_rate
    /\ delay_time[1] = delay_time[2]
    /\ delay_time[1][2] <= delay_time[1][1]
    /\ delay_time[1][1] <= 1000 * delay_time[1][2]
    /\ dry_wet = << <<1, 1>>, <<1, 1>> >>

\* Channel c has been fed a unit impulse at frame 0 and zeros since.
ImpulseOn(c) ==
    /\ Len(fed) >= 1
    /\ fed[1][c] = 1
    /\ \A k \in 2..Len(fed) : fed[k][c] = 0

\* delay_time * 0.001 * sample_rate as the fraction <<numerator, denominator>>.
DelayProduct == << delay_time[1][1] * sample_rate[1], delay_time[1][2] * 1000 * sample_rate[2] >>

\* C4 as stated, for delays that fit the buffer: the impulse comes out at
\* frame round(d * 0.001 * sr), and 0 at every other frame before the
\* buffer wraps.
C4_ImpulseAtRounded ==
    (/\ ImpulseTest
     /\ Floor(DelayProduct[1], DelayProduct[2]) <= BufferLength - 1
     /\ Round(DelayProduct[1], DelayProduct[2]) <= BufferLength - 1) =>
        \A c \in Channels : ImpulseOn(c) =>
            /\ ~panicked
            /\ \A i \in Done : FrameIndex(i) < BufferLength =>
                  RatIs(call.out[i][c],
                        IF FrameIndex(i) = Round(DelayProduct[1], DelayProduct[2]) THEN 1 ELSE 0)

\* C4 amended: the impulse comes out at frame D = trunc(d * 0.001 * sr),
\* provided D <= buffer_length - 1, and 0 at every other frame before the
\* buffer wraps; at 48000 Hz and 1000 ms the buffers hold 48048 samples and
\* D is 48000.
C4_ImpulseAtTruncated ==
    (ImpulseTest /\ Floor(DelayProduct[1], DelayProduct[2]) <= BufferLength - 1) =>
        /\ \A c \in Channels : ImpulseOn(c) =>
              /\ ~panicked
              /\ \A i \in Done : FrameIndex(i) < BufferLength =>
                    RatIs(call.out[i][c],
                          IF FrameIndex(i) = Floor(DelayProduct[1], DelayProduct[2]) THEN 1 ELSE 0)
        /\ MaxDelaySamples(<<48000, 1>>) = 48048
        /\ DelayTimeSamples(<<1000, 1>>, <<48000, 1>>) = 48000

\* The impulse fed in an earlier block comes out, one frame late, in a
\* later block, where the nearest integer to the delay would be two frames.
C4_Witness ==
    /\ ImpulseTest
    /\ ImpulseOn(1)
    /\ ~panicked
    /\ Len(call.out) < Len(fed)
    /\ Floor(DelayProduct[1], DelayProduct[2]) = 1
    /\ Round(DelayProduct[1], DelayProduct[2]) = 2
    /\ BufferLength = 3
    /\ \E i \in Done : FrameIndex(i) = 1 /\ RatIs(call.out[i][1], 1)

\* ------------------------------------------------------------------ C5
\* C5 as stated: initialize sets every channel buffer's length to
\* ceil(sample_rate * 1.001).
C5_LengthIsCeil ==
    (call.op = "initialize" /\ sample_rate[1] > 0) =>
        \A c \in Channels :
            Len(delay_buffer[c]) = Ceil(sample_rate[1] * 1001, sample_rate[2] * 1000)

\* C5 amended: initialize sets every channel buffer's length to
\* floor(sample_rate * 1.001), the product truncated; 44100 Hz gives 44144.
C5_LengthIsFloor ==
    (call.op = "initialize" /\ sample_rate[1] > 0) =>
        /\ \A c \in Channels :
              Len(delay_buffer[c]) = Floor(sample_rate[1] * 1001, sample_rate[2] * 1000)
        /\ MaxDelaySamples(<<44100, 1>>) = 44144

\* An initialize at a rate whose product with 1.001 is no integer.
C5_Witness ==
    /\ call.op = "initialize"
    /\ sample_rate = <<3, 1>>
    /\ \A c \in Channels : Len(delay_buffer[c]) = 3
    /\ Ceil(sample_rate[1] * 1001, sample_rate[2] * 1000) = 4

\* ------------------------------------------------------------------ C6
\* The cell at position r of channel c as frame g (0-based, counted from
\* the last initialize) reads it, after its own write: the input of the
\* latest frame up to g whose cursor was r, or the 0 of initialize.
Source(c, g, r) ==
    LET writers == { k \in 0..g : k % BufferLength = r } IN
    IF writers = {} THEN 0
    ELSE fed[(CHOOSE k \in writers : \A j \in writers : j <= k) + 1][c]

\* initialize leaves every sample 0, the cursor 0 and a length fixed by
\* the sample rate.
C6_Fresh ==
    (call.op = "initialize") =>
        /\ write_pos = 0
        /\ \A c \in Channels :
              /\ Len(delay_buffer[c]) = Floor(sample_rate[1] * 1001, sample_rate[2] * 1000)
              /\ \A k \in 1..Len(delay_buffer[c]) : delay_buffer[c][k] = 0

\* Every output mixes the input with a sample fed since the last
\* initialize, or with the 0 initialize wrote.
C6_NoStaleSample ==
    Processed =>
        \A i \in Done : \A c \in Channels :
            call.out[i][c]
              = Mix(call.in[i][c], Source(c, FrameIndex(i), call.reads[i][c]), ParamAt(dry_wet, 0))

\* initialize at the rate of the initialize before it changes nothing.
C6_Again ==
    (call.op = "initialize" /\ call'.op = "initialize" /\ sample_rate' = sample_rate) =>
        (delay_buffer' = delay_buffer /\ write_pos' = write_pos)

\* C6: initialize is an idempotent reset: from any state it leaves all
\* samples 0, the cursor 0 and a length that depends on the sample rate
\* only; a second initialize at the same rate changes nothing, and no
\* sample written before an initialize appears in a later output.
C6_IdempotentReset == [](C6_Fresh /\ C6_NoStaleSample) /\ [][C6_Again]_vars

\* An initialize that found the cursor advanced by earlier process calls.
C6_Witness ==
    /\ call.op = "initialize"
    /\ call.wp # 0
    /\ BufferLength >= 2
    /\ write_pos = 0

\* ------------------------------------------------------------------ C7
\* The delay, in samples, of the value delay_time has at frame i of the block.
DelayAt(i) == DelayTimeSamples(ParamAt(delay_time, i - 1), transport_rate)

PerBlockParameters ==
    (Processed /\ ~panicked /\ BufferLength >= 1 /\ BlockDelay <= BufferLength - 1) =>
        \A i \in Done : \A c \in Channels :
            /\ call.reads[i][c] = (CursorAt(i) + BufferLength - BlockDelay) % BufferLength
            /\ call.out[i][c]
                 = Mix(call.in[i][c], Source(c, FrameIndex(i), call.reads[i][c]),
                       ParamAt(dry_wet, 0))

\* ------------------------------------------------------------------ C8
\* C8: with the delay at buffer_length - 1 samples and dry_wet = 1, a
\* process call fails on no index, however often the cursor has wrapped,
\* and the output of frame i is the input of frame i - (buffer_length - 1)
\* of the same channel, 0 while there is no such frame.
C8_MaximumDelay ==
    (/\ Processed
     /\ BufferLength >= 1
     /\ BlockDelay = BufferLength - 1
     /\ ParamAt(dry_wet, 0) = <<1, 1>>) =>
        /\ ~panicked
        /\ Len(call.out) = Len(call.in)
        /\ \A i \in Done : \A c \in Channels :
              /\ call.reads[i][c] \in 0..(BufferLength - 1)
              /\ RatIs(call.out[i][c],
                       IF FrameIndex(i) >= BufferLength - 1
                       THEN fed[FrameIndex(i) - (BufferLength - 1) + 1][c]
                       ELSE 0)

\* The cursor has wrapped twice, and the last frame, fed silence, gives
\* out the impulse fed buffer_length - 1 frames before it.
C8_Witness ==
    /\ Processed
    /\ ~panicked
    /\ BufferLength = 2
    /\ BlockDelay = BufferLength - 1
    /\ ParamAt(dry_wet, 0) = <<1, 1>>
    /\ Len(fed) >= 2 * BufferLength
    /\ Len(call.out) >= 1
    /\ call.in[Len(call.in)][1] = 0
    /\ RatIs(call.out[Len(call.out)][1], 1)

\* ------------------------------------------------------------------ C9
\* C9: with a delay of 0 samples every frame reads at the write cursor,
\* the sample just written, and the output is the input on every channel,
\* whatever dry_wet is and whatever the buffers held.
C9_ZeroDelay ==
    (Processed /\ BlockDelay = 0) =>
        \A i \in Done : \A c \in Channels :
            /\ call.reads[i][c] = CursorAt(i)
            /\ RatIs(call.out[i][c], call.in[i][c])

\* A frame at delay 0 and a mix above 0 whose cell held, from one turn of
\* the buffer earlier, another sample than the one now written.
C9_Witness ==
    /\ Processed
    /\ ~panicked
    /\ BlockDelay = 0
    /\ ParamAt(dry_wet, 0)[1] > 0
    /\ BufferLength >= 2
    /\ \E i \in Done :
          /\ FrameIndex(i) >= BufferLength
          /\ fed[FrameIndex(i) - BufferLength + 1][1] # call.in[i][1]
          /\ RatIs(call.out[i][1], call.in[i][1])

\* ----------------------------------------------------------------- C10
\* With dry_wet = 0 every processed sample comes out as it went in.
C10_DryOut ==
    (Processed /\ ParamAt(dry_wet, 0) = <<0, 1>>) =>
        \A i \in Done : \A c \in Channels : RatIs(call.out[i][c], call.in[i][c])

\* A process call at dry_wet = 0 leaves the buffers, the cursor and the
\* outcome that the same call leaves at any other dry_wet.
C10_SameUpdate ==
    (call'.op = "process" /\ ParamAt(dry_wet, 0) = <<0, 1>>) =>
        \A wcurve \in MixCurves \cup { DefaultDryWet } :
            \A r \in { ProcessBlock(delay_buffer, write_pos, call'.in, delay_time, wcurve,
                                     transport_rate, overflow_checks) } :
                /\ delay_buffer' = r.buf
                /\ write_pos' = r.wp
                /\ panicked' = ~r.ok

\* C10: with dry_wet = 0, for every delay and every buffer content,
\* process leaves every sample of the block equal to its input, and it
\* updates the delay buffers and the cursor as for any other dry_wet.
C10_DryPassThrough == []C10_DryOut /\ [][C10_SameUpdate]_vars

\* A frame at dry_wet = 0 whose delayed sample differs from its input,
\* in a call that moved the cursor and wrote the buffer.
C10_Witness ==
    /\ Processed
    /\ ~panicked
    /\ ParamAt(dry_wet, 0) = <<0, 1>>
    /\ write_pos # call.wp
    /\ \E i \in Done :
          /\ Source(1, FrameIndex(i), call.reads[i][1]) # call.in[i][1]
          /\ delay_buffer[1][CursorAt(i) + 1] = 1
          /\ RatIs(call.out[i][1], call.in[i][1])

\* ----------------------------------------------------------------- C11
\* The blocks that differ from block in the samples of channel c at most.
OthersOn(c, block) ==
    { [i \in 1..Len(block) |-> [block[i] EXCEPT ![c] = b[i][c]]] :
        b \in { x \in Blocks : Len(x) = Len(block) } }

\* The samples of channel c in a sequence of frames.
ChannelOf(c, frames) == [i \in 1..Len(frames) |-> frames[i][c]]

\* Both channels of every frame read at one position, and the cell each
\* channel wrote last lies at the one cursor of its frame.
C11_Lockstep ==
    Processed =>
        /\ \A i \in Done : call.reads[i][1] = call.reads[i][2]
        /\ ~panicked =>
              \A i \in Done : \A c \in Channels :
                  (i + BufferLength > Len(call.out)) =>
                      delay_buffer[c][CursorAt(i) + 1] = call.in[i][c]

\* What a process call leaves in the output and the buffer of one channel
\* is what it leaves there when the other channel is fed anything else.
C11_Independent ==
    Processed =>
        \A c \in Channels : \A alt \in OthersOn(c, call.in) :
            \A r \in { ProcessBlock(call.buf, call.wp, alt, delay_time, dry_wet,
                                     transport_rate, overflow_checks) } :
                \A o \in Channels \ {c} :
                    /\ r.buf[o] = delay_buffer[o]
                    /\ ChannelOf(o, r.out) = ChannelOf(o, call.out)
                    /\ r.wp = write_pos

\* C11: two runs from one state with the same delay and mix that differ
\* in the input of one channel only agree on the output and the buffer of
\* the other channel, and in each run both channels use the same write
\* cursor and the same read position in every frame.
C11_ChannelIndependence == C11_Lockstep /\ C11_Independent

\* A fully wet frame of silence that gives out, on each channel, the
\* sample that channel was fed earlier.
C11_Witness ==
    /\ Processed
    /\ ~panicked
    /\ ParamAt(dry_wet, 0) = <<1, 1>>
    /\ \E i \in Done :
          /\ call.in[i] = <<0, 0>>
          /\ RatIs(call.out[i][1], 1)
          /\ RatIs(call.out[i][2], 2)
          /\ call.reads[i][1] # CursorAt(i)

\* ----------------------------------------------------------------- C12
\* The fraction r is (1 - w) * a + w * b, for fractions a, b and w.
IsCrossfade(r, a, b, w) ==
    r[1] * w[2] * a[2] * b[2]
      = r[2] * ((w[2] - w[1]) * a[1] * b[2] + w[1] * b[1] * a[2])

\* Every output is sample * (1 - dry_wet) + delayed * dry_wet.
C12_LinearMix ==
    Processed =>
        \A i \in Done : \A c \in Channels :
            IsCrossfade(call.out[i][c],
                        << call.in[i][c], 1 >>,
                        << Source(c, FrameIndex(i), call.reads[i][c]), 1 >>,
                        ParamAt(dry_wet, 0))

\* The output of a process call at dry_wet = w is (1 - w) times the output
\* of the same call at dry_wet = 0 plus w times its output at dry_wet = 1,
\* and the three calls leave the same buffers.
C12_Between ==
    Processed =>
        \A dry \in { ProcessBlock(call.buf, call.wp, call.in, delay_time,
                                   << <<0, 1>>, <<0, 1>> >>, transport_rate, overflow_checks) } :
        \A wet \in { ProcessBlock(call.buf, call.wp, call.in, delay_time,
                                   << <<1, 1>>, <<1, 1>> >>, transport_rate, overflow_checks) } :
            /\ Len(dry.out) = Len(call.out)
            /\ Len(wet.out) = Len(call.out)
            /\ dry.buf = delay_buffer
            /\ wet.buf = delay_buffer
            /\ \A i \in Done : \A c \in Channels :
                  IsCrossfade(call.out[i][c], dry.out[i][c], wet.out[i][c], ParamAt(dry_wet, 0))

\* C12: for a fixed input, delay and starting state the output at
\* dry_wet = w is (1 - w) * (output at 0) + w * (output at 1), that is
\* sample * (1 - w) + delayed * w, frame after frame, the mix level never
\* changing what the delay buffer stores.
C12_DryWetLinearity == C12_LinearMix /\ C12_Between

\* A frame at dry_wet = 0.1 whose delayed sample is 1 and whose input is
\* 0: the output is 0.1.
C12_Witness ==
    /\ Processed
    /\ ~panicked
    /\ ParamAt(dry_wet, 0) = <<1, 10>>
    /\ \E i \in Done :
          /\ call.in[i][1] = 0
          /\ Source(1, FrameIndex(i), call.reads[i][1]) = 1
          /\ call.out[i][1] = <<1, 10>>

\* ----------------------------------------------------------------- C13
\* delay_time * 0.001 * transport sample rate, at the start of the last
\* process call, as the fraction <<numerator, denominator>>.
BlockProduct ==
    << ParamAt(delay_time, 0)[1] * transport_rate[1],
       ParamAt(delay_time, 0)[2] * 1000 * transport_rate[2] >>

\* C13 as stated: the delay in samples is the product rounded to the
\* nearest integer; seen in the read position of every frame, for delays
\* that fit the buffer.
C13_ConversionRounds ==
    (/\ Processed
     /\ ~panicked
     /\ BufferLength >= 1
     /\ BlockProduct[1] >= 0
     /\ Floor(BlockProduct[1], BlockProduct[2]) <= BufferLength - 1
     /\ Round(BlockProduct[1], BlockProduct[2]) <= BufferLength - 1) =>
        \A i \in Done : \A c \in Channels :
            call.reads[i][c]
              = (CursorAt(i) + BufferLength - Round(BlockProduct[1], BlockProduct[2])) % BufferLength

\* C13 amended: the delay in samples is the product truncated toward
\* zero; 1.7 ms at 44100 Hz, 74.97, converts to 74.
C13_ConversionTruncates ==
    (/\ Processed
     /\ ~panicked
     /\ BufferLength >= 1
     /\ BlockProduct[1] >= 0
     /\ Floor(BlockProduct[1], BlockProduct[2]) <= BufferLength - 1) =>
        /\ \A i \in Done : \A c \in Channels :
              call.reads[i][c]
                = (CursorAt(i) + BufferLength - Floor(BlockProduct[1], BlockProduct[2])) % BufferLength
        /\ DelayTimeSamples(<<17, 10>>, <<44100, 1>>) = 74

\* A frame whose product is 1.5 and which reads one cell behind the cursor.
C13_Witness ==
    /\ Processed
    /\ ~panicked
    /\ BufferLength = 3
    /\ 2 * BlockProduct[1] = 3 * BlockProduct[2]
    /\ \E i \in Done : \A c \in Channels :
          call.reads[i][c] = (CursorAt(i) + BufferLength - 1) % BufferLength

\* ----------------------------------------------------------------- C14
\* All channel buffers have one length.
C14_SameLength == \A c \in Channels : Len(delay_buffer[c]) = BufferLength

\* A process call, also one that fails, changes no buffer's length.
C14_ProcessKeepsLength ==
    Processed => \A c \in Channels : Len(delay_buffer[c]) = Len(call.buf[c])

\* C14: in every reachable state all channel buffers have the same
\* length, and process never changes the length of any of them.
C14_EqualLengths == C14_SameLength /\ C14_ProcessKeepsLength

\* A process call that ran at least one frame on buffers of 2 samples.
C14_Witness ==
    /\ Processed
    /\ Len(call.out) >= 1
    /\ sample_rate = <<2, 1>>
    /\ \A c \in Channels : Len(delay_buffer[c]) = 2 /\ Len(call.buf[c]) = 2

\* ----------------------------------------------------------------- C15
\* C15: the delay line holds dry history only.  After n frames processed
\* since the last initialize, in a plugin that has not panicked, for every
\* channel c and every k in 1..min(n, buffer_length) the cell k places
\* behind the cursor holds the input of frame n - k, whatever delays and
\* mix levels were used; the cells no frame has reached hold 0.
C15_DryHistory ==
    (call.op # "default" /\ ~panicked /\ BufferLength >= 1) =>
        \A c \in Channels :
            /\ \A k \in 1..Min(Len(fed), BufferLength) :
                  delay_buffer[c][((write_pos + BufferLength - k) % BufferLength) + 1]
                    = fed[Len(fed) - k + 1][c]
            /\ \A j \in (Len(fed) + 1)..BufferLength : delay_buffer[c][j] = 0

\* A fully wet frame whose output differs from its input, after the
\* cursor has wrapped: the cell holds the input.
C15_Witness ==
    /\ Processed
    /\ ~panicked
    /\ ParamAt(dry_wet, 0) = <<1, 1>>
    /\ Len(fed) > BufferLength
    /\ BufferLength >= 2
    /\ \E i \in Done :
          /\ i = Len(call.out)
          /\ call.in[i][1] = 1
          /\ RatIs(call.out[i][1], 0)
          /\ delay_buffer[1][CursorAt(i) + 1] = 1

\* ----------------------------------------------------------------- C16
\* C16: a process call of F frames that returns takes write_pos to
\* (write_pos + F) mod buffer_length, one step for each frame and none
\* for each channel; a call of 0 frames leaves it where it was.
C16_CursorAdvance ==
    (Processed /\ ~panicked) =>
        /\ Len(call.out) = Len(call.in)
        /\ (Len(call.in) = 0) => write_pos = call.wp
        /\ (BufferLength >= 1) => write_pos = (call.wp + Len(call.in)) % BufferLength

\* A call of two frames that takes the cursor over the end of the buffer.
C16_Witness ==
    /\ Processed
    /\ ~panicked
    /\ BufferLength = 3
    /\ Len(call.in) = 2
    /\ call.wp = 2
    /\ write_pos = 1

\* ----------------------------------------------------------------- C17
\* The cursors of the frames of the last process call, the frame that
\* failed among them.
Touched == { (call.wp + t) % BufferLength : t \in 0..(Len(call.in) - 1) }

\* C17: a process call changes, in each channel buffer, no cell but the
\* cells at the cursors of its frames (one cell for a call of one frame,
\* the F cells from the initial cursor on for F <= buffer_length frames),
\* and no buffer's length.
C17_FrameEffect ==
    Processed =>
        \A c \in Channels :
            /\ Len(delay_buffer[c]) = Len(call.buf[c])
            /\ \A j \in 1..Len(delay_buffer[c]) :
                  (j - 1) \notin Touched => delay_buffer[c][j] = call.buf[c][j]

\* A call of one frame of silence on buffers of 3 samples that held an
\* impulse in a cell away from the cursor, and holds it still.
C17_Witness ==
    /\ Processed
    /\ ~panicked
    /\ BufferLength = 3
    /\ Len(call.in) = 1
    /\ call.in[1] = <<0, 0>>
    /\ \E j \in 1..BufferLength :
          /\ (j - 1) # call.wp
          /\ call.buf[1][j] = 1
          /\ delay_buffer[1][j] = 1
          /\ delay_buffer[2][j] = 2

\* ----------------------------------------------------------------- C18
\* C18: with one sample rate of at least 1000 Hz for the buffers and for
\* the conversion, every delay time in [1, 1000] ms converts to a delay
\* of 1..buffer_length - 1 samples, which a clamp into
\* [0, buffer_length - 1] leaves as it is: the read position is never the
\* write position, and lies exactly that many cells behind it.
C18_MarginKeepsDelayInside ==
    (/\ call.op = "convert"
     /\ sample_rate[1] >= 1000 * sample_rate[2]
     /\ delay_time[1][2] <= delay_time[1][1]
     /\ delay_time[1][1] <= 1000 * delay_time[1][2]) =>
        /\ 1 <= call.delay
        /\ call.delay <= call.len - 1
        /\ Min(call.delay, call.len - 1) = call.delay
        /\ call.read # call.wp
        /\ (call.wp + call.len - call.read) % call.len = call.delay

\* 1000 ms at 48000 Hz: 48000 samples in buffers of 48048, read from
\* cell 48 when the cursor is at cell 0.
C18_Witness ==
    /\ call.op = "convert"
    /\ sample_rate = <<48000, 1>>
    /\ delay_time[1] = <<1000, 1>>
    /\ call.len = 48048
    /\ call.delay = 48000
    /\ call.wp = 0
    /\ call.read = 48

====
